---- MODULE Spec2Model ----
(***************************************************************************)
(* Flight data recorder (FlightDataRecorder.ino): setup() allocates the    *)
(* next numbered session file on the SD card and writes the CSV header,    *)
(* loop() polls the BMP390 every READ_INTERVAL ms and appends one row per  *)
(* successful poll; a single LED shows red or green.                       *)
(*                                                                         *)
(* File names are sequences of one-character strings.  The outcome of each *)
(* call into a library (sensor, SD card) is an input of the action that    *)
(* makes the call.  A line written to a file is written whole or not at    *)
(* all.  Sensor values are not modelled: a row is its timestamp.           *)
(***************************************************************************)
EXTENDS Integers, Sequences, FiniteSets, TLC

\* ---------------------------------------------------------------- bounds
\* Most files in the storage root when the recorder is powered on.
MaxFiles == 2
\* Most sample-and-record cycles of one run.
MaxTicks == 2
\* Most runs (power-ons) on one card.
MaxRuns == 2
\* Highest number of an earlier recording, where every number is tried.
MaxExisting == 100000
\* Most ms before millis() wraps at which a sample was last recorded.
MaxBeforeWrap == 100

\* ------------------------------------------------------- program constants
READ_INTERVAL == 50
SETTLE_DELAY == 1000
PAD_WIDTH == 5
\* unsigned long is 32 bits wide: a value is <<high half, low half>>.
Half == 65536

FILE_PREFIX == <<"f", "l", "i", "g", "h", "t", "_">>
FILE_EXTENSION == <<".", "c", "s", "v">>
CSV_HEADER == "Timestamp,Altitude(m),Pressure(hPa),Temperature(C)"

\* ------------------------------------------------------- Arduino String
Digits == <<"0", "1", "2", "3", "4", "5", "6", "7", "8", "9">>

IsDigit(c) == \E i \in 1..10 : Digits[i] = c

DigitVal(c) == (CHOOSE i \in 1..10 : Digits[i] = c) - 1

IsSpace(c) == c = " "

\* String::startsWith
startsWith(s, p) ==
    /\ Len(p) <= Len(s)
    /\ SubSeq(s, 1, Len(p)) = p

\* String::endsWith
endsWith(s, e) ==
    /\ Len(e) <= Len(s)
    /\ SubSeq(s, Len(s) - Len(e) + 1, Len(s)) = e

\* String::substring(left, right): 0-based, right exclusive; the two are
\* swapped when left > right, and right is cut to the length.
substring(s, left, right) ==
    LET l == IF left > right THEN right ELSE left
        r0 == IF left > right THEN left ELSE right
        r == IF r0 > Len(s) THEN Len(s) ELSE r0
    IN  IF l >= Len(s) THEN <<>> ELSE SubSeq(s, l + 1, r)

\* The digit run at the head of s, as a number that continues acc.
RECURSIVE AccDigits(_, _)
AccDigits(s, acc) ==
    IF s = <<>> \/ ~IsDigit(Head(s)) THEN acc
    ELSE AccDigits(Tail(s), acc * 10 + DigitVal(Head(s)))

RECURSIVE SkipSpace(_)
SkipSpace(s) ==
    IF s # <<>> /\ IsSpace(Head(s)) THEN SkipSpace(Tail(s)) ELSE s

\* String::toInt is atol: leading white space, an optional sign, then the
\* digits up to the first character that is not one; 0 when there are none.
toInt(s) ==
    LET t == SkipSpace(s)
    IN  IF t = <<>> THEN 0
        ELSE IF Head(t) = "-" THEN 0 - AccDigits(Tail(t), 0)
        ELSE IF Head(t) = "+" THEN AccDigits(Tail(t), 0)
        ELSE AccDigits(t, 0)

\* String(int): the decimal digits, "-" first for a negative number.
RECURSIVE NatToString(_)
NatToString(n) ==
    IF n < 10 THEN <<Digits[n + 1]>>
    ELSE NatToString(n \div 10) \o <<Digits[(n % 10) + 1]>>

IntToString(n) == IF n < 0 THEN <<"-">> \o NatToString(0 - n) ELSE NatToString(n)

\* Mutant: the zeros are put after the digits.
RECURSIVE PadLeft_Right(_, _)
PadLeft_Right(result, width) ==
    IF Len(result) < width THEN PadLeft_Right(result \o <<"0">>, width) ELSE result

RECURSIVE PadLeft(_, _)
PadLeft(result, width) ==
    IF Len(result) < width THEN PadLeft(<<"0">> \o result, width) ELSE result

padNumber(number, width) == PadLeft(IntToString(number), width)

\* ------------------------------------------------- unsigned long (millis)
U32(n) == <<n \div Half, n % Half>>

U32Add(a, b) ==
    LET lo == a[2] + b[2]
        hi == a[1] + b[1] + (lo \div Half)
    IN  <<hi % Half, lo % Half>>

U32Sub(a, b) ==
    LET lo == a[2] - b[2]
        hi == a[1] - b[1] - (IF lo < 0 THEN 1 ELSE 0)
    IN  <<hi % Half, lo % Half>>

U32Geq(a, b) == a[1] > b[1] \/ (a[1] = b[1] /\ a[2] >= b[2])

\* ------------------------------------------------------------ SD card
\* A file is the sequence of its lines; a line is [kind, ts].
OldLine == [kind |-> "old", ts |-> U32(0)]
HeaderLine == [kind |-> "header", ts |-> U32(0)]
RowLine(t) == [kind |-> "row", ts |-> t]

\* The entry of the root directory that an absolute path names.
EntryOf(path) == Tail(path)

\* SD_MMC.open(path, FILE_WRITE): creates the file, or truncates the one
\* that is there; ok is whether the card let it.
OpenForWrite(files, path, ok) ==
    IF ok
    THEN [n \in (DOMAIN files) \cup {EntryOf(path)} |->
             IF n = EntryOf(path) THEN <<>> ELSE files[n]]
    ELSE files

\* File::print / File::println: the line goes to the handle's buffer; ok is
\* whether the card takes the line (one it does not take is lost whole).
BufferLine(buf, line, ok) == IF ok THEN Append(buf, line) ELSE buf

\* File::flush: what the handle holds goes to the file on the card.
Flush(files, path, buf) ==
    IF buf = <<>> THEN files ELSE [files EXCEPT ![EntryOf(path)] = @ \o buf]

\* File::println with the flush after it, nothing else being buffered.
Println(files, path, line, ok) ==
    IF ok THEN [files EXCEPT ![EntryOf(path)] = Append(@, line)] ELSE files

\* ------------------------------------------------ findNextFileNumber
\* One turn of the while loop: the file's effect on maxNumber.
ScanOne(fileName, maxNumber) ==
    IF startsWith(fileName, FILE_PREFIX) /\ endsWith(fileName, FILE_EXTENSION)
    THEN LET numberPart == substring(fileName, Len(FILE_PREFIX),
                                     Len(fileName) - Len(FILE_EXTENSION))
             currentNumber == toInt(numberPart)
         IN  IF currentNumber > maxNumber THEN currentNumber ELSE maxNumber
    ELSE maxNumber

\* The while loop over root.openNextFile(), in the order the card lists.
RECURSIVE ScanFiles(_, _)
ScanFiles(names, maxNumber) ==
    IF names = {} THEN maxNumber
    ELSE LET fileName == CHOOSE n \in names : TRUE
         IN  ScanFiles(names \ {fileName}, ScanOne(fileName, maxNumber))

\* Mutant: the highest number found is returned as it is.
findNextFileNumber_NoIncrement(rootOk, names) ==
    IF ~rootOk THEN 0 ELSE ScanFiles(names, 0)

findNextFileNumber(rootOk, names) ==
    IF ~rootOk THEN 0 ELSE ScanFiles(names, 0) + 1

\* ------------------------------------------------------------ inputs
Flight(middle) == FILE_PREFIX \o middle \o FILE_EXTENSION

\* Names prefix + digits + extension.
NumberedNames ==
    { Flight(<<"0", "0", "0", "0", "3">>),
      Flight(<<"0", "0", "0", "0", "0">>),
      Flight(<<"1", "2">>) }

\* Names with the prefix and the extension around something else.
MalformedNames ==
    { Flight(<<"1", "2", "a", "b", "c">>),
      Flight(<<>>),
      Flight(<<"a", "b", "c">>),
      Flight(<<"-", "5">>),
      Flight(<<"+", "7">>) }

\* Names without the prefix or without the extension.
OtherNames ==
    { <<"n", "o", "t", "e", "s", ".", "t", "x", "t">>,
      FILE_PREFIX \o <<"7", ".", "t", "x", "t">>,
      <<"l", "o", "g", "_", "9">> \o FILE_EXTENSION }

FileNames == NumberedNames \cup MalformedNames \cup OtherNames

Roots == { D \in SUBSET FileNames : Cardinality(D) <= MaxFiles }

\* Time that passes between two reads of millis() in loop().
Delays == {0, 25, 50}

\* -------------------------------------------------------------- state
VARIABLES
    pc,            \* where setup() / loop() stands
    led,           \* leds[0] as last shown: "off", "red", "green"
    preexisting,   \* names in the storage root at power-on
    fs,            \* the storage root: name -> lines
    rootOpened,    \* history: findNextFileNumber's root: "none", "ok", "failed"
    fileNumber,    \* setup()'s fileNumber
    dataFileName,  \* the global dataFileName
    dataFile,      \* whether the global dataFile is an open handle
    clock,         \* millis()
    lastReadTime,  \* the global lastReadTime
    pollLog,       \* history: the polls made, [ok, at], in order
    buffer,        \* lines dataFile holds that are not flushed to the card
    sinceLast,     \* history: true ms since the last sample-and-record
                   \* cycle started (since power-on before the first)
    waits,         \* history: what sinceLast had come to at each poll
    sessions,      \* history: the numbers of the session files created on
                   \* this card, run after run
    boots          \* history: the runs so far

vars == <<pc, led, preexisting, fs, rootOpened, fileNumber, dataFileName, dataFile,
          clock, lastReadTime, pollLog, buffer, sinceLast, waits, sessions,
          boots>>

HaltPcs == {"halt_sensor", "halt_pins", "halt_mount", "halt_create"}

Init ==
    /\ pc = "start"
    /\ led = "off"
    /\ preexisting \in Roots
    /\ fs = [n \in preexisting |-> <<OldLine>>]
    /\ rootOpened = "none"
    /\ fileNumber = 0
    /\ dataFileName = <<>>
    /\ dataFile = FALSE
    /\ clock = U32(0)
    /\ lastReadTime = U32(0)
    /\ pollLog = <<>>
    /\ buffer = <<>>
    /\ sinceLast = 0
    /\ waits = <<>>
    /\ sessions = <<>>
    /\ boots = 1

\* ------------------------------------------------------------- setup()
\* Lines 112-128: delay, serial, FastLED set up, LED red.
InitLed ==
    /\ pc = "start"
    /\ clock' = U32Add(clock, U32(SETTLE_DELAY))
    /\ led' = "red"
    /\ pc' = "sensor"
    /\ sinceLast' = sinceLast + SETTLE_DELAY
    /\ UNCHANGED <<preexisting, fs, rootOpened, fileNumber, dataFileName,
                   dataFile, lastReadTime, pollLog, buffer, waits, sessions,
                   boots>>

\* Lines 131-141: bmp.begin_I2C(), then the sensor settings.
SensorBegin(ok) ==
    /\ pc = "sensor"
    /\ pc' = IF ok THEN "pins" ELSE "halt_sensor"
    /\ UNCHANGED <<led, preexisting, fs, rootOpened, fileNumber, dataFileName,
                   dataFile, clock, lastReadTime, pollLog, buffer, sinceLast,
                   waits, sessions, boots>>

\* Lines 144-148: SD_MMC.setPins().
SetPins(ok) ==
    /\ pc = "pins"
    /\ pc' = IF ok THEN "mount" ELSE "halt_pins"
    /\ UNCHANGED <<led, preexisting, fs, rootOpened, fileNumber, dataFileName,
                   dataFile, clock, lastReadTime, pollLog, buffer, sinceLast,
                   waits, sessions, boots>>

\* Lines 150-154: SD_MMC.begin().
Mount(ok) ==
    /\ pc = "mount"
    /\ pc' = IF ok THEN "scan" ELSE "halt_mount"
    /\ UNCHANGED <<led, preexisting, fs, rootOpened, fileNumber, dataFileName,
                   dataFile, clock, lastReadTime, pollLog, buffer, sinceLast,
                   waits, sessions, boots>>

\* Lines 157-162: delay, findNextFileNumber(), the file's name.
AllocateName(rootOk) ==
    /\ pc = "scan"
    /\ clock' = U32Add(clock, U32(SETTLE_DELAY))
    /\ rootOpened' = IF rootOk THEN "ok" ELSE "failed"
    /\ fileNumber' = findNextFileNumber(rootOk, DOMAIN fs)
    /\ dataFileName' = <<"/">> \o FILE_PREFIX
                          \o padNumber(fileNumber', PAD_WIDTH) \o FILE_EXTENSION
    /\ pc' = "create"
    /\ sinceLast' = sinceLast + SETTLE_DELAY
    /\ UNCHANGED <<led, preexisting, fs, dataFile, lastReadTime, pollLog,
                   buffer, waits, sessions, boots>>

\* Lines 164-169: SD_MMC.open(dataFileName, FILE_WRITE).
CreateFile(ok) ==
    /\ pc = "create"
    /\ fs' = OpenForWrite(fs, dataFileName, ok)
    /\ dataFile' = ok
    /\ pc' = IF ok THEN "header" ELSE "halt_create"
    /\ sessions' = IF ok THEN Append(sessions, fileNumber) ELSE sessions
    /\ UNCHANGED <<led, preexisting, rootOpened, fileNumber, dataFileName,
                   clock, lastReadTime, pollLog, buffer, sinceLast, waits,
                   boots>>

\* Lines 171-180: the header, its flush, LED green.  The result of
\* println is not looked at.
WriteHeader(ok) ==
    /\ pc = "header"
    /\ fs' = Flush(fs, dataFileName, BufferLine(buffer, HeaderLine, ok))
    /\ buffer' = <<>>
    /\ led' = "green"
    /\ pc' = "loop"
    /\ UNCHANGED <<preexisting, rootOpened, fileNumber, dataFileName, dataFile,
                   clock, lastReadTime, pollLog, sinceLast, waits, sessions,
                   boots>>

\* Mutant: a halted recorder starts over (a watchdog reset).
Halt_Restart ==
    /\ pc \in HaltPcs
    /\ pc' = "start"
    /\ UNCHANGED <<led, preexisting, fs, rootOpened, fileNumber, dataFileName,
                   dataFile, clock, lastReadTime, pollLog, buffer, sinceLast,
                   waits, sessions, boots>>

\* The while (1); of lines 134, 147, 153 and 168.
Halt ==
    /\ pc \in HaltPcs
    /\ UNCHANGED vars

\* -------------------------------------------------------------- loop()
\* recordDataPoint(), lines 187-212: the poll, and on success the row (its
\* timestamp is millis(), here now), the flush and LED green; LED red on
\* failure.  The results of print and println are not looked at.
\* Mutant: the row is written whatever the poll returned.
recordDataPoint_RowAnyway(now, pollOk, writeOk) ==
    /\ pollLog' = Append(pollLog, [ok |-> pollOk, at |-> now])
    /\ fs' = Println(fs, dataFileName, RowLine(now), writeOk)
    /\ buffer' = <<>>
    /\ led' = IF pollOk THEN "green" ELSE "red"

\* Mutant: a failed poll leaves the LED as it was.
recordDataPoint_StaleLed(now, pollOk, writeOk) ==
    /\ pollLog' = Append(pollLog, [ok |-> pollOk, at |-> now])
    /\ buffer' = <<>>
    /\ IF pollOk
       THEN /\ fs' = Println(fs, dataFileName, RowLine(now), writeOk)
            /\ led' = "green"
       ELSE /\ fs' = fs
            /\ led' = led

\* Mutant: every row goes to a new file of its own.
recordDataPoint_FilePerRow(now, pollOk, writeOk) ==
    /\ pollLog' = Append(pollLog, [ok |-> pollOk, at |-> now])
    /\ buffer' = <<>>
    /\ IF pollOk
       THEN /\ fs' = Println(OpenForWrite(fs, <<"/">> \o Flight(IntToString(Len(pollLog))),
                                          writeOk),
                             <<"/">> \o Flight(IntToString(Len(pollLog))),
                             RowLine(now), writeOk)
            /\ led' = "green"
       ELSE /\ fs' = fs
            /\ led' = "red"

\* Mutant: the row is left in the handle's buffer (no flush).
recordDataPoint_NoFlush(now, pollOk, writeOk) ==
    /\ pollLog' = Append(pollLog, [ok |-> pollOk, at |-> now])
    /\ fs' = fs
    /\ IF pollOk
       THEN /\ buffer' = BufferLine(buffer, RowLine(now), writeOk)
            /\ led' = "green"
       ELSE /\ buffer' = buffer
            /\ led' = "red"

recordDataPoint(now, pollOk, writeOk) ==
    /\ pollLog' = Append(pollLog, [ok |-> pollOk, at |-> now])
    /\ IF pollOk
       THEN /\ fs' = Flush(fs, dataFileName,
                           BufferLine(buffer, RowLine(now), writeOk))
            /\ buffer' = <<>>
            /\ led' = "green"
       ELSE /\ fs' = fs
            /\ buffer' = buffer
            /\ led' = "red"

\* Mutant: due only after more than the interval.
TickDue_Strict(currentTime, last) ==
    U32Geq(U32Sub(currentTime, last), U32(READ_INTERVAL + 1))

\* Mutant: currentTime >= lastReadTime + READ_INTERVAL.
TickDue_SumCompared(currentTime, last) ==
    U32Geq(currentTime, U32Add(last, U32(READ_INTERVAL)))

\* The test of line 218.
TickDue(currentTime, last) ==
    U32Geq(U32Sub(currentTime, last), U32(READ_INTERVAL))

\* Mutant: the marker moves on by one interval (ticks missed are made up).
Loop_CatchUp(d, pollOk, writeOk) ==
    /\ pc = "loop"
    /\ clock' = U32Add(clock, U32(d))
    /\ IF TickDue(clock', lastReadTime)
       THEN /\ Len(pollLog) < MaxTicks
            /\ recordDataPoint(clock', pollOk, writeOk)
            /\ lastReadTime' = U32Add(lastReadTime, U32(READ_INTERVAL))
            /\ waits' = Append(waits, sinceLast + d)
            /\ sinceLast' = 0
       ELSE /\ sinceLast' = sinceLast + d
            /\ UNCHANGED <<fs, led, lastReadTime, pollLog, waits, buffer>>
    /\ UNCHANGED <<pc, preexisting, rootOpened, fileNumber, dataFileName,
                   dataFile, sessions, boots>>

\* One iteration of loop(), lines 214-222, d ms after the one before.
Loop(d, pollOk, writeOk) ==
    /\ pc = "loop"
    /\ clock' = U32Add(clock, U32(d))
    /\ IF TickDue(clock', lastReadTime)
       THEN /\ Len(pollLog) < MaxTicks
            /\ recordDataPoint(clock', pollOk, writeOk)
            /\ lastReadTime' = clock'
            /\ waits' = Append(waits, sinceLast + d)
            /\ sinceLast' = 0
       ELSE /\ sinceLast' = sinceLast + d
            /\ UNCHANGED <<fs, led, lastReadTime, pollLog, waits, buffer>>
    /\ UNCHANGED <<pc, preexisting, rootOpened, fileNumber, dataFileName,
                   dataFile, sessions, boots>>

Next ==
    \/ InitLed
    \/ \E ok \in BOOLEAN : SensorBegin(ok)
    \/ \E ok \in BOOLEAN : SetPins(ok)
    \/ \E ok \in BOOLEAN : Mount(ok)
    \/ \E rootOk \in BOOLEAN : AllocateName(rootOk)
    \/ \E ok \in BOOLEAN : CreateFile(ok)
    \/ \E ok \in BOOLEAN : WriteHeader(ok)
    \/ \E d \in Delays, pollOk \in BOOLEAN, writeOk \in BOOLEAN :
          Loop(d, pollOk, writeOk)
    \/ Halt

Spec == Init /\ [][Next]_vars

\* ------------------------------------------------------- several runs
\* The recorder is switched off and on again; while it is off, the files
\* in deleted are removed from the card.  The globals are as at power-on,
\* the card keeps what was flushed to it.
PowerCycle(deleted) ==
    /\ boots < MaxRuns
    /\ boots' = boots + 1
    /\ fs' = [n \in (DOMAIN fs) \ deleted |-> fs[n]]
    /\ preexisting' = (DOMAIN fs) \ deleted
    /\ pc' = "start"
    /\ led' = "off"
    /\ rootOpened' = "none"
    /\ fileNumber' = 0
    /\ dataFileName' = <<>>
    /\ dataFile' = FALSE
    /\ clock' = U32(0)
    /\ lastReadTime' = U32(0)
    /\ pollLog' = <<>>
    /\ buffer' = <<>>
    /\ sinceLast' = 0
    /\ waits' = <<>>
    /\ UNCHANGED sessions

\* A card that is empty or holds one earlier recording.
InitRuns == Init /\ preexisting \subseteq {Flight(<<"0", "0", "0", "0", "3">>)}

NextRuns ==
    \/ Next
    \/ \E deleted \in SUBSET (DOMAIN fs) :
          Cardinality(deleted) <= 1 /\ PowerCycle(deleted)

SpecRuns == InitRuns /\ [][NextRuns]_vars

\* ------------------------------------------- every number, one by one
\* setup() about to call findNextFileNumber (sensor and card are up), on
\* a card that holds one earlier recording, of any number.
InitNumbers ==
    /\ pc = "scan"
    /\ led = "red"
    /\ preexisting \in { {Flight(IntToString(k))} : k \in 0..MaxExisting }
    /\ fs = [n \in preexisting |-> <<OldLine>>]
    /\ rootOpened = "none"
    /\ fileNumber = 0
    /\ dataFileName = <<>>
    /\ dataFile = FALSE
    /\ clock = U32(SETTLE_DELAY)
    /\ lastReadTime = U32(0)
    /\ pollLog = <<>>
    /\ buffer = <<>>
    /\ sinceLast = SETTLE_DELAY
    /\ waits = <<>>
    /\ sessions = <<>>
    /\ boots = 1

NextNumbers == \E rootOk \in BOOLEAN : AllocateName(rootOk)

SpecNumbers == InitNumbers /\ [][NextNumbers]_vars

\* --------------------------------------- loop() after weeks of running
\* A longer time between two reads of millis() too: three intervals.
LongDelays == Delays \cup {150}

\* Times up to MaxBeforeWrap ms before millis() wraps (0: as it wraps).
LoopStarts == { U32Sub(U32(0), U32(k)) : k \in 0..MaxBeforeWrap }

\* A recorder that runs, on a card that was empty, and has just recorded a
\* sample at t0.  The file shows its header and that last row; the
\* histories of polls and waits start here.
InitLoop ==
    \E t0 \in LoopStarts :
        /\ pc = "loop"
        /\ led = "green"
        /\ preexisting = {}
        /\ rootOpened = "ok"
        /\ fileNumber = 1
        /\ dataFileName = <<"/">> \o FILE_PREFIX \o padNumber(1, PAD_WIDTH)
                              \o FILE_EXTENSION
        /\ dataFile = TRUE
        /\ fs = [n \in {FILE_PREFIX \o padNumber(1, PAD_WIDTH) \o FILE_EXTENSION}
                    |-> <<HeaderLine, RowLine(t0)>>]
        /\ clock = t0
        /\ lastReadTime = t0
        /\ pollLog = <<>>
        /\ buffer = <<>>
        /\ sinceLast = 0
        /\ waits = <<>>
        /\ sessions = <<1>>
        /\ boots = 1

NextLoop ==
    \E d \in LongDelays, pollOk \in BOOLEAN, writeOk \in BOOLEAN :
        Loop(d, pollOk, writeOk)

SpecLoop == InitLoop /\ [][NextLoop]_vars

\* ===================================================== reference notions
\* What is between the prefix and the extension of a name that has both.
HasPrefixAndExtension(name) ==
    startsWith(name, FILE_PREFIX) /\ endsWith(name, FILE_EXTENSION)

Middle(name) == SubSeq(name, Len(FILE_PREFIX) + 1, Len(name) - Len(FILE_EXTENSION))

\* prefix + a run of decimal digits + extension.
IsNumbered(name) ==
    /\ HasPrefixAndExtension(name)
    /\ Middle(name) # <<>>
    /\ \A i \in 1..Len(Middle(name)) : IsDigit(Middle(name)[i])

\* prefix + something that is not a run of decimal digits + extension.
IsMalformed(name) == HasPrefixAndExtension(name) /\ ~IsNumbered(name)

\* The number a run of decimal digits writes.
RECURSIVE DecimalValue(_)
DecimalValue(digits) ==
    IF digits = <<>> THEN 0
    ELSE 10 * DecimalValue(SubSeq(digits, 1, Len(digits) - 1))
             + DigitVal(digits[Len(digits)])

SequenceNumber(name) == DecimalValue(Middle(name))

SequenceNumbers(names) == { SequenceNumber(n) : n \in { m \in names : IsNumbered(m) } }

MaxOf(S) == CHOOSE m \in S : \A x \in S : x <= m

\* max(parsed numbers) + 1, or 1 when no file is numbered.
ExpectedNext(names) ==
    IF SequenceNumbers(names) = {} THEN 1 ELSE MaxOf(SequenceNumbers(names)) + 1

\* findNextFileNumber has run and listed the root.
Scanned == pc = "create" /\ rootOpened = "ok"

Halted == pc \in HaltPcs

\* The storage root as it was at power-on.
Untouched == fs = [n \in preexisting |-> <<OldLine>>]

\* The session file's lines (once it is created).
SessionLines == fs[EntryOf(dataFileName)]

Rows(lines) == SelectSeq(lines, LAMBDA l : l.kind = "row")

LastPoll == pollLog[Len(pollLog)]

\* ================================================================ claims

C2_MalformedIgnored ==
    Scanned => \A m \in preexisting :
                   IsMalformed(m) =>
                       fileNumber = findNextFileNumber(TRUE, preexisting \ {m})

\* C3 (as claimed): the number of a created session file is greater than
\* the sequence number of every numbered file that was in the root.
C3_NumberAbovePreexisting ==
    dataFile => \A n \in preexisting :
                    IsNumbered(n) => fileNumber > SequenceNumber(n)

\* C4: after a fatal failure of a startup step the recorder is halted for
\* good: it stays where it halted, the LED is red, no line was or is added
\* to any file, no poll is made, and setup goes past the creation of the
\* file only with the file open.
C4_FatalHalts ==
    /\ [](Halted => (led = "red" /\ Untouched /\ pollLog = <<>> /\ ~dataFile))
    /\ [](pc \in {"header", "loop"} => dataFile)
    /\ [][Halted => (pc' = pc /\ led' = "red" /\ fs' = fs /\ pollLog' = pollLog)]_vars

\* C4 witness: halted because the session file could not be created, with
\* earlier recordings on the card.
C4_Witness == pc = "halt_create" /\ preexisting # {} /\ led = "red"

\* C5 (as claimed): when the root directory cannot be opened for the
\* listing, the recorder halts: no session file, LED red, nothing recorded.
C5_RootFailureHalts ==
    rootOpened = "failed" =>
        (~dataFile /\ pc \notin {"header", "loop"} /\ led = "red" /\ Untouched)

\* The header is not the first line of the session file of a recorder
\* that is past the header step: its write failed.
HeaderFailed ==
    /\ pc = "loop"
    /\ (SessionLines = <<>> \/ Head(SessionLines) # HeaderLine)

\* C6 (as claimed): when the header cannot be written the recorder halts
\* with the LED red, the LED never turns green and no row is appended.
C6_HeaderFailureHalts ==
    HeaderFailed => (led = "red" /\ pollLog = <<>> /\ Rows(SessionLines) = <<>>)

\* A step that makes a poll, which fails.
FailedPollStep ==
    /\ Len(pollLog') > Len(pollLog)
    /\ ~pollLog'[Len(pollLog')].ok

\* C7: a tick whose poll fails leaves every file as it was and makes that
\* one poll only.
C7_FailedPollWritesNothing ==
    [][FailedPollStep => (fs' = fs /\ Len(pollLog') = Len(pollLog) + 1)]_vars

\* C7 witness: a failed poll after a recorded one; the file holds the
\* header and the one row.
C7_Witness ==
    /\ Len(pollLog) = 2
    /\ pollLog[1].ok /\ ~pollLog[2].ok
    /\ SessionLines = <<HeaderLine, RowLine(pollLog[1].at)>>

\* The rows of the polls that succeeded, in the order of the polls.
RECURSIVE RowsOf(_)
RowsOf(log) ==
    IF log = <<>> THEN <<>>
    ELSE (IF Head(log).ok THEN <<RowLine(Head(log).at)>> ELSE <<>>) \o RowsOf(Tail(log))

\* C8 (as claimed): the session file is the header followed by one row per
\* successful poll, in the order of the polls.
C8_HeaderThenRows ==
    pc = "loop" => SessionLines = <<HeaderLine>> \o RowsOf(pollLog)

\* C9 (as claimed): a failed poll never halts the recorder, and a tick
\* whose poll succeeds appends that poll's row and turns the LED green.
C9_SuccessAfterFailuresRecords ==
    [][(Len(pollLog') > Len(pollLog))
          => /\ pc' = "loop"
             /\ (pollLog'[Len(pollLog')].ok
                    => /\ led' = "green"
                       /\ fs' = Println(fs, dataFileName,
                                        RowLine(pollLog'[Len(pollLog')].at), TRUE))]_vars

C11_NumbersIncreaseAcrossRuns ==
    \A i, j \in 1..Len(sessions) : i < j => sessions[i] < sessions[j]

\* C12 (as claimed): the LED is green after a tick only if the row of that
\* tick is in the session file.
C12_GreenOnlyWithRowStored ==
    (pc = "loop" /\ pollLog # <<>> /\ led = "green")
        => \E i \in 1..Len(SessionLines) : SessionLines[i] = RowLine(LastPoll.at)

\* C13 (as claimed): the LED is green, and a poll or a row exists, only
\* once setup() is done with the sensor up, the card mounted, the session
\* file created and the header in it.
C13_GreenOnlyAfterStartup ==
    (led = "green" \/ pollLog # <<>>)
        => /\ pc = "loop"
           /\ rootOpened # "none"
           /\ dataFile
           /\ SessionLines # <<>>
           /\ Head(SessionLines) = HeaderLine

Millis(t) == t[1] * Half + t[2]

\* A step that makes a sample-and-record cycle.
CycleStep == Len(pollLog') > Len(pollLog)

\* C15: an iteration of loop() makes a sample-and-record cycle exactly
\* when the time it reads minus lastReadTime is at least READ_INTERVAL, and
\* then sets lastReadTime to that time; otherwise it polls nothing and
\* leaves lastReadTime, the files and the LED as they were.
C15_CycleIffIntervalPassed ==
    [][pc = "loop" =>
          IF Millis(clock') - Millis(lastReadTime) >= READ_INTERVAL
          THEN /\ Len(pollLog') = Len(pollLog) + 1
               /\ lastReadTime' = clock'
          ELSE UNCHANGED <<lastReadTime, fs, led, pollLog>>]_vars

\* C15 witness: a second cycle came exactly READ_INTERVAL ms after the
\* first, and 25 ms later an iteration did nothing.
C15_Witness ==
    /\ pc = "loop"
    /\ Len(waits) = 2 /\ waits[2] = READ_INTERVAL
    /\ sinceLast = 25
    /\ Millis(clock) - Millis(lastReadTime) = 25

\* C16: an iteration makes one sample-and-record cycle at most, however
\* long it is since the last one, and a cycle starts READ_INTERVAL ms or
\* more after the one before.
C16_NoBackfill ==
    [][(pc = "loop" /\ (CycleStep \/ Len(waits') > Len(waits))) =>
          /\ Len(pollLog') = Len(pollLog) + 1
          /\ Len(waits') = Len(waits) + 1
          /\ waits'[Len(waits')] >= READ_INTERVAL
          /\ Len(SessionLines') <= Len(SessionLines) + 1
          /\ sinceLast' = 0]_vars

\* C16 witness: one cycle made three intervals after the last sample, the
\* next one interval later.
C16_Witness ==
    /\ pc = "loop"
    /\ Len(pollLog) = 2
    /\ waits = <<3 * READ_INTERVAL, READ_INTERVAL>>
    /\ Len(SessionLines) <= 4

\* C20: also when millis() wraps between the two reads, an iteration makes
\* a cycle exactly when the true time since the last cycle is at least
\* READ_INTERVAL ms.
C20_TickTestAcrossWrap ==
    [][pc = "loop" =>
          (CycleStep <=>
              (IF CycleStep THEN waits'[Len(waits')] ELSE sinceLast') >= READ_INTERVAL)]_vars

\* C20 witness: a sample recorded 10 ms before the wrap, the next one 40 ms
\* after it.
C20_Witness ==
    /\ pc = "loop"
    /\ SessionLines[2] = RowLine(U32Sub(U32(0), U32(10)))
    /\ Len(pollLog) = 1
    /\ pollLog[1].at = U32(40)
    /\ waits = <<READ_INTERVAL>>
    /\ lastReadTime = U32(40)

C19_NeverAnExistingName ==
    dataFile => /\ EntryOf(dataFileName) \notin preexisting
                /\ \A n \in preexisting : fs[n] = <<OldLine>>

====
